---- MODULE Spec2Model ----
(***************************************************************************)
(* Model of decoplan::MultimodalProcessor (src/src/multimodal_processor.cpp).*)
(*                                                                         *)
(* The processor owns an engine handle llm_ (std::unique_ptr<LLMWrapper>),  *)
(* a vision-encoder handle clip_ctx_, a cached image embedding image_embed_ *)
(* and the stored config_.  Its operations are the constructor, the        *)
(* destructor, initialize, cleanup, loadImage, generateFromImage,          *)
(* generateFromImageStreaming and isLoaded.  Calls on one processor are     *)
(* serialized by the caller, so every operation is one atomic action.      *)
(*                                                                         *)
(* Strings whose exact content matters (prompts) are sequences of          *)
(* one-character strings, so that concatenation is really computed.        *)
(***************************************************************************)
EXTENDS Naturals, Sequences, FiniteSets, TLC

VARIABLES
    alive,          \* the processor object exists (constructed, not yet destroyed)
    llm,            \* llm_ : "null" or "engine" (the LLMWrapper it owns)
    engineLoaded,   \* what the owned engine's isLoaded() reports (FALSE when llm_ is null)
    clip_ctx,       \* clip_ctx_ : "null" or "ctx"
    image_embed,    \* image_embed_ : "null" or "embed"
    config,         \* config_ : the stored MultimodalConfig
    history,        \* "fresh" | "initialized" | "cleaned": calls seen since construction
    lastOp,         \* the operation that ran last
    prevOp,         \* the operation that ran before it
    pre,            \* the processor's fields when the last operation started
    args,           \* the last operation's arguments [path, prompt]
    ret,            \* how it returned: "none" "true" "false" "void" "text" "throw"
    what,           \* the message of the exception it threw (<<>> if none)
    calls,          \* the calls it made, in order (collaborators and loadImage)
    enginePrompt,   \* the full prompt it handed to the engine (<<>> if none)
    liveEngines,    \* LLMWrapper instances built by initialize and not yet destroyed
    produced,       \* the chunks the engine produced during the last operation
    delivered       \* the chunks the caller's callback received, in order

vars == <<alive, llm, engineLoaded, clip_ctx, image_embed, config,
          history, lastOp, prevOp, pre, args, ret, what, calls, enginePrompt,
          liveEngines, produced, delivered>>

----------------------------------------------------------------------------
(* Bounds and input domains *)

MaxPromptLen == 2

Alphabet == {"a", "\n", "<"}

RECURSIVE StringsUpTo(_)
StringsUpTo(n) ==
    IF n = 0 THEN {<<>>}
    ELSE LET shorter == StringsUpTo(n - 1)
         IN  shorter \cup {Append(s, c) : s \in {t \in shorter : Len(t) = n - 1}, c \in Alphabet}

Prompts == StringsUpTo(MaxPromptLen)

ImagePaths == {"room.png", "missing.png"}

ModelPaths == {"", "model.gguf", "broken.gguf"}

ClipPaths == {"", "mmproj.gguf", "broken-mmproj.gguf"}

Handles == {"null", "ctx"}

\* MultimodalConfig: the two paths; the tuning parameters are copied through
\* to the engine unchanged and decide nothing in this file.
Configs == [model_path : ModelPaths, clip_model_path : ClipPaths]

DefaultConfig == [model_path |-> "", clip_model_path |-> ""]

NoArgs == [path |-> "", prompt |-> <<>>]

----------------------------------------------------------------------------
(* The engine (LLMWrapper), at its interface *)

\* LLMWrapper::initialize: succeeds iff the model file can be loaded.
EngineInitialize(model_path) == model_path = "model.gguf"

\* LLMWrapper::generate / generateStreaming: returns, or fails with a runtime error.
EngineOutcomes == {"text", "throw"}

EngineError == <<"engine runtime error">>

\* What one streaming generation may produce: nothing, or chunks, some of
\* them equal.
ChunkSeqs == {<<>>, <<"tok1", "tok2">>, <<"tok2", "tok1", "tok1">>}

\* LLMWrapper::generateStreaming: invokes the callback it was handed once per
\* chunk it produces, in generation order, before it returns or throws.
EngineStreamInvocations(chunks) == chunks

----------------------------------------------------------------------------
(* State after construction *)

Snapshot ==
    [llm |-> llm, engineLoaded |-> engineLoaded, clip_ctx |-> clip_ctx,
     image_embed |-> image_embed, config |-> config]

Init ==
    /\ alive = TRUE
    /\ llm = "null"
    /\ engineLoaded = FALSE
    /\ clip_ctx = "null"
    /\ image_embed = "null"
    /\ config = DefaultConfig
    /\ history = "fresh"
    /\ lastOp = "construct"
    /\ prevOp = "none"
    /\ pre = [llm |-> "null", engineLoaded |-> FALSE, clip_ctx |-> "null",
              image_embed |-> "null", config |-> DefaultConfig]
    /\ args = NoArgs
    /\ ret = "none"
    /\ what = <<>>
    /\ calls = <<>>
    /\ enginePrompt = <<>>
    /\ liveEngines = 0
    /\ produced = <<>>
    /\ delivered = <<>>

\* What an operation that started from fields s records about itself.
RecordFrom(s, op, a, r, w, c, p, prod, deliv) ==
    /\ lastOp' = op
    /\ prevOp' = lastOp
    /\ pre' = s
    /\ args' = a
    /\ ret' = r
    /\ what' = w
    /\ calls' = c
    /\ enginePrompt' = p
    /\ produced' = prod
    /\ delivered' = deliv

\* The same for an operation that involves no streaming.
Record(op, a, r, w, c, p) == RecordFrom(Snapshot, op, a, r, w, c, p, <<>>, <<>>)

----------------------------------------------------------------------------
(* isLoaded *)

isLoadedHandleOnly == llm # "null"

\* return llm_ && llm_->isLoaded();
isLoaded == llm # "null" /\ engineLoaded

\* The engine is asked only when the handle is non-null (short-circuit &&).
isLoadedCalls == IF llm # "null" THEN <<"engine.isLoaded">> ELSE <<>>

IsLoaded ==
    /\ alive
    /\ Record("isLoaded", NoArgs, IF isLoaded THEN "true" ELSE "false", <<>>,
              isLoadedCalls, <<>>)
    /\ UNCHANGED <<alive, llm, engineLoaded, clip_ctx, image_embed, config, history,
                   liveEngines>>

----------------------------------------------------------------------------
(* Constructor and destructor *)

\* MultimodalProcessor(): all three handles null.  A new object can be built
\* once the previous one is gone.
Construct ==
    /\ ~alive
    /\ alive' = TRUE
    /\ llm' = "null"
    /\ engineLoaded' = FALSE
    /\ clip_ctx' = "null"
    /\ image_embed' = "null"
    /\ config' = DefaultConfig
    /\ history' = "fresh"
    /\ Record("construct", NoArgs, "none", <<>>, <<>>, <<>>)
    /\ UNCHANGED liveEngines

----------------------------------------------------------------------------
(* initialize *)

\* llm_ = std::make_unique<LLMWrapper>(): the new engine is built, then the
\* engine held before (if any) is destroyed by the assignment; then
\* llm_->initialize(llm_config).
InitializeCalls ==
    <<"engine.new">>
    \o (IF llm # "null" THEN <<"engine.destroy">> ELSE <<>>)
    \o <<"engine.initialize">>

InitializeLiveLeaksOld == liveEngines + 1

\* One engine is built; the unique_ptr assignment destroys the one held before.
InitializeLive == liveEngines + 1 - (IF llm # "null" THEN 1 ELSE 0)

\* The handle after initialize: the freshly made engine, on success and on
\* failure alike (the early return does not reset llm_).
InitializeLlm(cfg) == "engine"

InitializeClipLoads(cfg) ==
    IF cfg.clip_model_path = "mmproj.gguf" THEN "ctx" ELSE clip_ctx

\* The encoder handle after the vision step: the load call is commented out,
\* so clip_ctx_ keeps the value it had.
InitializeClip(cfg) == clip_ctx

InitializeRetClipRequired(cfg) ==
    EngineInitialize(cfg.model_path)
    /\ (cfg.clip_model_path = "" \/ InitializeClip(cfg) # "null")

\* false iff llm_->initialize failed; the vision step never fails initialize.
InitializeRet(cfg) == EngineInitialize(cfg.model_path)

Initialize(cfg) ==
    /\ alive
    /\ config' = cfg
    /\ llm' = InitializeLlm(cfg)
    /\ engineLoaded' = EngineInitialize(cfg.model_path)
    /\ clip_ctx' = IF EngineInitialize(cfg.model_path) /\ cfg.clip_model_path # ""
                   THEN InitializeClip(cfg)
                   ELSE clip_ctx
    /\ history' = "initialized"
    /\ Record("initialize", NoArgs, IF InitializeRet(cfg) THEN "true" ELSE "false",
              <<>>, InitializeCalls, <<>>)
    /\ liveEngines' = InitializeLive
    /\ UNCHANGED <<alive, image_embed>>

----------------------------------------------------------------------------
(* cleanup *)

\* The release calls cleanup makes, in the order it makes them.  Dropping the
\* encoder makes no call (clip_free is commented out).
CleanupCalls ==
    (IF image_embed # "null" THEN <<"llava_image_embed_free">> ELSE <<>>)
    \o (IF llm # "null" THEN <<"engine.cleanup", "engine.destroy">> ELSE <<>>)

CleanupLlmNoReset == llm

\* llm_.reset()
CleanupLlm == "null"

CleanupBody(op) ==
    /\ image_embed' = "null"
    /\ clip_ctx' = "null"
    /\ llm' = CleanupLlm
    /\ engineLoaded' = FALSE
    /\ history' = "cleaned"
    /\ liveEngines' = liveEngines - (IF llm # "null" THEN 1 ELSE 0)
    /\ Record(op, NoArgs, "void", <<>>, CleanupCalls, <<>>)
    /\ UNCHANGED config

Cleanup ==
    /\ alive
    /\ CleanupBody("cleanup")
    /\ UNCHANGED alive

\* ~MultimodalProcessor() { cleanup(); }
Destroy ==
    /\ alive
    /\ CleanupBody("destroy")
    /\ alive' = FALSE

----------------------------------------------------------------------------
(* loadImage *)

\* loadImage on a processor whose encoder handle is clip and whose cached
\* embedding is embed.  A cache entry is named by the path it was made from;
\* "embed" is an entry made from some earlier image.

\* false when there is no encoder; otherwise clip_ctx_ != nullptr.
LoadImageRetOf(clip) == clip # "null"

\* The cached embedding afterwards: untouched without an encoder; otherwise
\* freed and nulled (the code that would store a new one is commented out).
LoadImageEmbedOf(clip, embed) == IF clip = "null" THEN embed ELSE "null"

LoadImageCallsOf(clip, embed) ==
    IF clip # "null" /\ embed # "null"
    THEN <<"llava_image_embed_free">>
    ELSE <<>>

LoadImageRetNoGuard == TRUE

LoadImageRet == LoadImageRetOf(clip_ctx)

LoadImageEmbedUnguarded == "embed"

LoadImageEmbed == LoadImageEmbedOf(clip_ctx, image_embed)

LoadImageCalls == LoadImageCallsOf(clip_ctx, image_embed)

LoadImage(path) ==
    /\ alive
    /\ image_embed' = LoadImageEmbed
    /\ Record("loadImage", [path |-> path, prompt |-> <<>>],
              IF LoadImageRet THEN "true" ELSE "false", <<>>, LoadImageCalls, <<>>)
    /\ UNCHANGED <<alive, llm, engineLoaded, clip_ctx, config, history, liveEngines>>

----------------------------------------------------------------------------
(* Prompt construction *)

FullPromptBlockingAlwaysTemplated(clip, prompt) ==
    <<"U", "S", "E", "R", ":", " ", "<", "i", "m", "a", "g", "e", ">", "\n">>
    \o prompt
    \o <<"\n", "A", "S", "S", "I", "S", "T", "A", "N", "T", ":", " ">>

\* generateFromImage: "USER: <image>\n" + prompt + "\nASSISTANT: " with an
\* encoder, the prompt itself without.
FullPromptBlocking(clip, prompt) ==
    IF clip # "null"
    THEN <<"U", "S", "E", "R", ":", " ", "<", "i", "m", "a", "g", "e", ">", "\n">>
         \o prompt
         \o <<"\n", "A", "S", "S", "I", "S", "T", "A", "N", "T", ":", " ">>
    ELSE prompt

FullPromptStreamingNoTrailingSpace(clip, prompt) ==
    IF clip # "null"
    THEN <<"U", "S", "E", "R", ":", " ", "<", "i", "m", "a", "g", "e", ">", "\n">>
         \o prompt
         \o <<"\n", "A", "S", "S", "I", "S", "T", "A", "N", "T", ":">>
    ELSE prompt

\* generateFromImageStreaming: the same two cases, written out a second time.
FullPromptStreaming(clip, prompt) ==
    IF clip # "null"
    THEN <<"U", "S", "E", "R", ":", " ", "<", "i", "m", "a", "g", "e", ">", "\n">>
         \o prompt
         \o <<"\n", "A", "S", "S", "I", "S", "T", "A", "N", "T", ":", " ">>
    ELSE prompt

----------------------------------------------------------------------------
(* generateFromImage and generateFromImageStreaming *)

NotInitialized == <<"Multimodal processor not initialized">>

ImageLoadError(path) == <<"Failed to load image: ", path>>

GenerateGuardInverted == ~isLoaded

\* The handler goes on past its first check.
GenerateGuard == isLoaded

StreamingCallbackDropped == "none"

\* llm_->generateStreaming(full_prompt, callback): the caller's callback is
\* handed to the engine as it is.
StreamingCallback == "callback"

\* A handler past its first check, on a processor with fields s: the image
\* load when there is an encoder, then the engine call.  The two handlers
\* differ in the prompt they build and the engine method they call:
\* engineCall names the method, full the prompt built, okRet what a normal
\* return looks like, chunks what the engine streams, cb the callback the
\* engine is handed.
GenerateLoaded(s, op, path, prompt, out, engineCall, full, okRet, chunks, cb) ==
    LET a == [path |-> path, prompt |-> prompt]
        asked == IF s.llm # "null" THEN <<"engine.isLoaded">> ELSE <<>>
    IN
    IF s.clip_ctx # "null" /\ ~LoadImageRetOf(s.clip_ctx)
    THEN /\ RecordFrom(s, op, a, "throw", ImageLoadError(path),
                       asked \o <<"loadImage">>
                       \o LoadImageCallsOf(s.clip_ctx, s.image_embed),
                       <<>>, <<>>, <<>>)
         /\ image_embed' = LoadImageEmbedOf(s.clip_ctx, s.image_embed)
    ELSE /\ RecordFrom(s, op, a, IF out = "throw" THEN "throw" ELSE okRet,
                       IF out = "throw" THEN EngineError ELSE <<>>,
                       asked
                       \o (IF s.clip_ctx # "null"
                           THEN <<"loadImage">>
                                \o LoadImageCallsOf(s.clip_ctx, s.image_embed)
                           ELSE <<>>)
                       \o <<engineCall>>,
                       full, chunks,
                       IF cb = "callback" THEN EngineStreamInvocations(chunks) ELSE <<>>)
         /\ image_embed' = IF s.clip_ctx # "null"
                           THEN LoadImageEmbedOf(s.clip_ctx, s.image_embed)
                           ELSE s.image_embed

GenerateBody(op, path, prompt, out, engineCall, full, okRet, chunks, cb) ==
    IF ~GenerateGuard
    THEN /\ Record(op, [path |-> path, prompt |-> prompt], "throw", NotInitialized,
                   isLoadedCalls, <<>>)
         /\ UNCHANGED image_embed
    ELSE GenerateLoaded(Snapshot, op, path, prompt, out, engineCall, full, okRet,
                        chunks, cb)

GenerateFromImageDropsEngineOnError(path, prompt, out) ==
    /\ alive
    /\ GenerateBody("generateFromImage", path, prompt, out, "engine.generate",
                    FullPromptBlocking(clip_ctx, prompt), "text", <<>>, "none")
    /\ llm' = IF GenerateGuard /\ out = "throw" THEN "null" ELSE llm
    /\ engineLoaded' = IF GenerateGuard /\ out = "throw" THEN FALSE ELSE engineLoaded
    /\ liveEngines' = IF GenerateGuard /\ out = "throw" /\ llm # "null"
                      THEN liveEngines - 1
                      ELSE liveEngines
    /\ UNCHANGED <<alive, clip_ctx, config, history>>

\* The blocking call streams nothing and is handed no callback.
GenerateFromImage(path, prompt, out) ==
    /\ alive
    /\ GenerateBody("generateFromImage", path, prompt, out, "engine.generate",
                    FullPromptBlocking(clip_ctx, prompt), "text", <<>>, "none")
    /\ UNCHANGED <<alive, llm, engineLoaded, clip_ctx, config, history, liveEngines>>

GenerateFromImageStreaming(path, prompt, out, chunks) ==
    /\ alive
    /\ GenerateBody("generateFromImageStreaming", path, prompt, out,
                    "engine.generateStreaming",
                    FullPromptStreaming(clip_ctx, prompt), "void",
                    chunks, StreamingCallback)
    /\ UNCHANGED <<alive, llm, engineLoaded, clip_ctx, config, history, liveEngines>>

----------------------------------------------------------------------------
(* The processor under any sequence of calls *)

Next ==
    \/ Construct
    \/ \E cfg \in Configs : Initialize(cfg)
    \/ Cleanup
    \/ Destroy
    \/ \E path \in ImagePaths : LoadImage(path)
    \/ \E path \in ImagePaths, prompt \in Prompts, out \in EngineOutcomes :
          GenerateFromImage(path, prompt, out)
    \/ \E path \in ImagePaths, prompt \in Prompts, out \in EngineOutcomes,
          chunks \in ChunkSeqs :
          GenerateFromImageStreaming(path, prompt, out, chunks)
    \/ IsLoaded

Spec == Init /\ [][Next]_vars

----------------------------------------------------------------------------
(* Prompt construction and hand-over, as a function of the encoder handle  *)
(* and the user prompt: the closing block of each generation handler,      *)
(* applied to both values the handle can take.                             *)

PromptStep(op, clip, prompt, out, engineCall, full, okRet) ==
    /\ lastOp' = op
    /\ prevOp' = lastOp
    /\ pre' = [llm |-> "engine", engineLoaded |-> TRUE, clip_ctx |-> clip,
               image_embed |-> "null", config |-> config]
    /\ args' = [path |-> "", prompt |-> prompt]
    /\ ret' = IF out = "throw" THEN "throw" ELSE okRet
    /\ what' = IF out = "throw" THEN EngineError ELSE <<>>
    /\ calls' = <<engineCall>>
    /\ enginePrompt' = full
    /\ produced' = <<>>
    /\ delivered' = <<>>
    /\ UNCHANGED <<alive, llm, engineLoaded, clip_ctx, image_embed, config, history,
                   liveEngines>>

PromptBlocking(clip, prompt, out) ==
    PromptStep("prompt.blocking", clip, prompt, out, "engine.generate",
               FullPromptBlocking(clip, prompt), "text")

PromptStreaming(clip, prompt, out) ==
    PromptStep("prompt.streaming", clip, prompt, out, "engine.generateStreaming",
               FullPromptStreaming(clip, prompt), "void")

PromptNext ==
    \/ \E clip \in Handles, prompt \in Prompts, out \in EngineOutcomes :
          PromptBlocking(clip, prompt, out)
    \/ \E clip \in Handles, prompt \in Prompts, out \in EngineOutcomes :
          PromptStreaming(clip, prompt, out)

PromptSpec == Init /\ [][PromptNext]_vars

----------------------------------------------------------------------------
(* The image-loading handlers as functions of the processor's fields: each  *)
(* is applied to a loaded processor whose encoder handle and cached          *)
(* embedding are given.  No call sequence of this source produces a          *)
(* non-null encoder handle, so this is the only way to see what loadImage    *)
(* and the image-load step of the generation handlers do with one.  The      *)
(* cache after the call is image_embed; the other fields are not written by  *)
(* these handlers.                                                           *)

Embeds == {"null"} \cup ImagePaths

HandleInputs == {<<"null", "null">>} \cup {<<"ctx", e>> : e \in Embeds}

LoadedWith(h) ==
    [llm |-> "engine", engineLoaded |-> TRUE, clip_ctx |-> h[1],
     image_embed |-> h[2], config |-> config]

LoadImageOn(h, path) ==
    /\ RecordFrom(LoadedWith(h), "loadImage", [path |-> path, prompt |-> <<>>],
                  IF LoadImageRetOf(h[1]) THEN "true" ELSE "false", <<>>,
                  LoadImageCallsOf(h[1], h[2]), <<>>, <<>>, <<>>)
    /\ image_embed' = LoadImageEmbedOf(h[1], h[2])
    /\ UNCHANGED <<alive, llm, engineLoaded, clip_ctx, config, history, liveEngines>>

GenerateFromImageOn(h, path, prompt, out) ==
    /\ GenerateLoaded(LoadedWith(h), "generateFromImage", path, prompt, out,
                      "engine.generate", FullPromptBlocking(h[1], prompt), "text",
                      <<>>, "none")
    /\ UNCHANGED <<alive, llm, engineLoaded, clip_ctx, config, history, liveEngines>>

GenerateFromImageStreamingOn(h, path, prompt, out, chunks) ==
    /\ GenerateLoaded(LoadedWith(h), "generateFromImageStreaming", path, prompt, out,
                      "engine.generateStreaming", FullPromptStreaming(h[1], prompt),
                      "void", chunks, StreamingCallback)
    /\ UNCHANGED <<alive, llm, engineLoaded, clip_ctx, config, history, liveEngines>>

HandlerNext ==
    \/ \E h \in HandleInputs, path \in ImagePaths : LoadImageOn(h, path)
    \/ \E h \in HandleInputs, path \in ImagePaths, prompt \in Prompts,
          out \in EngineOutcomes :
          GenerateFromImageOn(h, path, prompt, out)
    \/ \E h \in HandleInputs, path \in ImagePaths, prompt \in Prompts,
          out \in EngineOutcomes, chunks \in ChunkSeqs :
          GenerateFromImageStreamingOn(h, path, prompt, out, chunks)

HandlerSpec == Init /\ [][HandlerNext]_vars

----------------------------------------------------------------------------
(* Properties *)

GenerateOps == {"generateFromImage", "generateFromImageStreaming"}

CleanupOps == {"cleanup", "destroy"}

Made(c) == \E i \in 1..Len(calls) : calls[i] = c

\* C1: when the engine fails to initialize, initialize returns failure and
\* the processor holds no engine handle, no encoder and no embedding.
C1_FailedInitializeHoldsNothing ==
    (lastOp = "initialize" /\ ~EngineInitialize(config.model_path)) =>
        (ret = "false" /\ llm = "null" /\ clip_ctx = "null" /\ image_embed = "null")

\* C2: once initialize has been given a model path the engine cannot load,
\* initialize has returned false and isLoaded() is false on every later call
\* until the next initialize, whatever the vision-model path.
C2_UnloadableModelNeverLoaded ==
    (history # "fresh" /\ ~EngineInitialize(config.model_path)) =>
        /\ ~isLoaded
        /\ (lastOp = "initialize" => ret = "false")
        /\ (lastOp = "isLoaded" => ret = "false")

C2_Witness ==
    /\ lastOp = "isLoaded"
    /\ prevOp \in GenerateOps
    /\ ret = "false"
    /\ history = "initialized"
    /\ config = [model_path |-> "broken.gguf", clip_model_path |-> "mmproj.gguf"]

\* C3: initialize returns true exactly when the engine initialized; with a
\* vision path that cannot be loaded it still returns true, the encoder
\* handle stays absent and the processor is loaded.
C3_InitializeTrueIffEngineUsable ==
    lastOp = "initialize" =>
        /\ (ret = "true") <=> engineLoaded
        /\ (engineLoaded /\ config.clip_model_path = "broken-mmproj.gguf") =>
               (ret = "true" /\ clip_ctx = "null" /\ isLoaded)

C3_Witness ==
    /\ lastOp = "initialize"
    /\ ret = "true"
    /\ config.clip_model_path = "broken-mmproj.gguf"
    /\ clip_ctx = "null"

\* C4: a generation call made before any initialize, or after cleanup, throws
\* "Multimodal processor not initialized" and makes no call at all: no engine
\* call, no image load, no prompt handed over.
C4_GenerateUninitializedFails ==
    (lastOp \in GenerateOps /\ history \in {"fresh", "cleaned"}) =>
        /\ ret = "throw"
        /\ what = <<"Multimodal processor not initialized">>
        /\ calls = <<>>
        /\ enginePrompt = <<>>
        /\ image_embed = pre.image_embed

C4_Witness ==
    /\ lastOp = "generateFromImageStreaming"
    /\ prevOp = "cleanup"
    /\ history = "cleaned"
    /\ pre.llm = "null"
    /\ ret = "throw"

\* C5: the processor is in exactly one of the modes uninitialized (no engine
\* handle), text-only (engine, no encoder), multimodal (engine and encoder);
\* an encoder handle or a cached embedding is never held without an engine.
C5_OneOfThreeModes ==
    LET uninitialized == llm = "null" /\ clip_ctx = "null" /\ image_embed = "null"
        textOnly == llm # "null" /\ clip_ctx = "null"
        multimodal == llm # "null" /\ clip_ctx # "null"
    IN  /\ uninitialized \/ textOnly \/ multimodal
        /\ ~(uninitialized /\ textOnly)
        /\ ~(uninitialized /\ multimodal)
        /\ ~(textOnly /\ multimodal)
        /\ (clip_ctx # "null" \/ image_embed # "null") => llm # "null"

C5_Witness ==
    /\ lastOp = "loadImage"
    /\ history = "cleaned"
    /\ llm = "null"
    /\ clip_ctx = "null"
    /\ image_embed = "null"

\* C6: a cleanup (explicit or the destructor's) that directly follows a
\* cleanup makes no release call, does not throw and leaves every field as
\* it was.
C6_CleanupIdempotent ==
    (lastOp \in CleanupOps /\ prevOp = "cleanup") =>
        /\ calls = <<>>
        /\ ret = "void"
        /\ what = <<>>
        /\ Snapshot = pre

C6_Witness ==
    /\ lastOp = "destroy"
    /\ prevOp = "cleanup"
    /\ config.model_path = "model.gguf"

ReleaseRank(c) ==
    IF c = "llava_image_embed_free" THEN 1
    ELSE IF c = "clip_free" THEN 2
    ELSE 3

C8_TextOnlyRawPrompt ==
    (lastOp \in GenerateOps /\ pre.llm # "null" /\ pre.engineLoaded
        /\ pre.clip_ctx = "null") =>
        /\ ~Made("loadImage")
        /\ ~Made("llava_image_embed_free")
        /\ what # <<"Failed to load image: ", args.path>>
        /\ Made("engine.generate") \/ Made("engine.generateStreaming")
        /\ enginePrompt = args.prompt
        /\ image_embed = pre.image_embed

C8_Witness ==
    /\ lastOp = "generateFromImage"
    /\ ret = "text"
    /\ pre.clip_ctx = "null"
    /\ config.clip_model_path = "broken-mmproj.gguf"
    /\ args.prompt = <<"<", "a">>
    /\ enginePrompt = <<"<", "a">>

\* C9: with an encoder present, the prompt handed to the engine is exactly
\* "USER: <image>\n" + userPrompt + "\nASSISTANT: ", and the blocking and the
\* streaming handler build the same prompt from the same handle and prompt.
C9_MultimodalPromptTemplate ==
    (lastOp \in {"prompt.blocking", "prompt.streaming"} /\ pre.clip_ctx # "null") =>
        /\ enginePrompt =
               <<"U", "S", "E", "R", ":", " ", "<", "i", "m", "a", "g", "e", ">", "\n">>
               \o args.prompt
               \o <<"\n", "A", "S", "S", "I", "S", "T", "A", "N", "T", ":", " ">>
        /\ Len(enginePrompt) = 26 + Len(args.prompt)
        /\ FullPromptBlocking(pre.clip_ctx, args.prompt)
               = FullPromptStreaming(pre.clip_ctx, args.prompt)

C9_Witness ==
    /\ lastOp = "prompt.streaming"
    /\ pre.clip_ctx = "ctx"
    /\ ret = "void"
    /\ args.prompt = <<"a", "\n">>
    /\ Len(enginePrompt) = 28

EngineRan == Made("engine.generate") \/ Made("engine.generateStreaming")

C12_StreamingCallbackPerChunk ==
    lastOp = "generateFromImageStreaming" =>
        /\ delivered = produced
        /\ ~(pre.llm # "null" /\ pre.engineLoaded) =>
               (delivered = <<>> /\ ~EngineRan)
        /\ delivered # <<>> => Made("engine.generateStreaming")
        /\ ret = "void" => calls[Len(calls)] = "engine.generateStreaming"

C12_Witness ==
    /\ lastOp = "generateFromImageStreaming"
    /\ ret = "void"
    /\ produced = <<"tok2", "tok1", "tok1">>
    /\ delivered = <<"tok2", "tok1", "tok1">>

\* C13: initialize called with an empty language-model path does not invoke
\* the engine's initialize.
C13_EmptyModelPathNotAttempted ==
    (lastOp = "initialize" /\ config.model_path = "") => ~Made("engine.initialize")

C15_LoadImageWithoutEncoder ==
    (lastOp = "loadImage" /\ pre.clip_ctx = "null") =>
        /\ ret = "false"
        /\ what = <<>>
        /\ calls = <<>>
        /\ Snapshot = pre

C15_Witness ==
    /\ lastOp = "loadImage"
    /\ prevOp = "initialize"
    /\ pre.llm = "engine"
    /\ pre.engineLoaded
    /\ pre.config.clip_model_path = "broken-mmproj.gguf"
    /\ ret = "false"

\* C16: the processor never enters multimodal mode: the encoder handle is
\* absent and the cache empty in every state, loadImage always returns
\* failure, no generation call runs the image load, and every prompt handed
\* to the engine is the user's prompt without the image template.
C16_NeverMultimodal ==
    /\ clip_ctx = "null"
    /\ image_embed = "null"
    /\ lastOp = "loadImage" => ret = "false"
    /\ lastOp \in GenerateOps => ~Made("loadImage")
    /\ (lastOp \in GenerateOps /\ EngineRan) => enginePrompt = args.prompt

C16_Witness ==
    /\ lastOp = "generateFromImage"
    /\ prevOp = "loadImage"
    /\ config = [model_path |-> "model.gguf", clip_model_path |-> "mmproj.gguf"]
    /\ ret = "text"
    /\ args.prompt = <<"a">>
    /\ enginePrompt = <<"a">>

\* C17: every initialize builds one engine, destroys the one held before, and
\* holds the new one: at most one engine instance is alive, it is the held
\* one, and a failed initialize on a loaded processor leaves isLoaded() false.
C17_InitializeReplacesEngine ==
    /\ liveEngines <= 1
    /\ liveEngines = 1 <=> llm # "null"
    /\ lastOp = "initialize" =>
           /\ Made("engine.new")
           /\ Made("engine.destroy") <=> pre.llm # "null"
           /\ llm = "engine"
           /\ ret = "false" => ~isLoaded

C17_Witness ==
    /\ lastOp = "initialize"
    /\ pre.llm = "engine"
    /\ pre.engineLoaded
    /\ ret = "false"
    /\ ~isLoaded
    /\ liveEngines = 1

\* C18: a generation call, however it ends, leaves the engine handle, the
\* encoder handle and the stored config unchanged, and leaves the cache
\* unchanged when there is no encoder; isLoaded() changes no field.
C18_GenerateFrame ==
    /\ lastOp \in GenerateOps =>
           /\ llm = pre.llm
           /\ engineLoaded = pre.engineLoaded
           /\ clip_ctx = pre.clip_ctx
           /\ config = pre.config
           /\ pre.clip_ctx = "null" => image_embed = pre.image_embed
    /\ lastOp = "isLoaded" => Snapshot = pre

C18_Witness ==
    /\ lastOp = "generateFromImage"
    /\ ret = "throw"
    /\ what = <<"engine runtime error">>
    /\ llm = "engine"
    /\ engineLoaded

====
